---- MODULE Spec2Model ----
(***************************************************************************)
(* Process supervision in the two Electron main processes of the           *)
(* repository:                                                             *)
(*   - src/unnamed/part_000: keeps the child in the global pythonProcess,  *)
(*     handles start-agent, stop-agent, get-dashboard-data,                *)
(*     window-all-closed and activate;                                     *)
(*   - src/electron-frontend/main.js: spawns on every start-agent, relays  *)
(*     stdout, stderr and close to the window; its renderer is             *)
(*     src/electron-frontend/renderer/dashboard.js.                        *)
(* Spec is part_000, FeSpec is electron-frontend.  Both run over the same  *)
(* model of child processes (Node child_process) and of the window.        *)
(***************************************************************************)
EXTENDS Integers, Sequences, FiniteSets, TLC

\* ---------------------------------------------------------------- bounds
MaxProcs == 2      \* child processes spawned in one run

ProcIds == 1..MaxProcs

\* ------------------------------------------------------- values of the code
\* `let pythonProcess;` leaves it undefined, stop-agent assigns null
Undefined == -1
Null == 0

\* exit codes a worker may end with on its own
ExitCodes == {0, 1}
\* the code Node reports for a child that a signal ended
NullCode == -1

VARIABLES
  platform,       \* process.platform: "darwin" or "other"
  appRunning,     \* FALSE once app.quit() ran
  windowOpen,     \* mainWindow refers to a window that is not destroyed
  pythonProcess,  \* part_000's global: Undefined, Null or a process id
  procs,          \* the ChildProcess objects and their OS processes
  outWritten,     \* lines the workers have written to stdout so far
  errWritten,     \* lines the workers have written to stderr so far
  emitted,        \* what the step just taken passed to webContents.send
  threw,          \* the step just taken ended in an uncaught exception
  last,           \* the command the step just taken handled, and its result
  queue,          \* messages on their way to the renderer's listeners
  logOutput,      \* dashboard.js: what appendLog added to #log-output
  invokes         \* ipcRenderer.invoke('start-agent') calls not yet handled

vars == <<platform, appRunning, windowOpen, pythonProcess, procs,
          outWritten, errWritten,
          emitted, threw, last, queue, logOutput, invokes>>

\* ----------------------------------------------------------- pure helpers

\* JavaScript truthiness of the values pythonProcess takes
Falsy(v) == v = Undefined \/ v = Null

\* the lines the workers of one run write, as bytes ("A\n"); each goes to
\* stdout or to stderr of the worker that writes it
WorkerLines == << <<65, 10>> >>

\* Buffer.prototype.toString() on the bytes the workers write
Chr(b) == CASE b = 10 -> "\n"
            [] b = 65 -> "A"
            [] OTHER -> "?"
toString(data) == [i \in 1..Len(data) |-> Chr(data[i])]

\* `${code}` in a template literal
CodeStr(c) == CASE c = 0 -> "0"
                [] c = 1 -> "1"
                [] OTHER -> "null"

Take(s, n) == SubSeq(s, 1, n)
Drop(s, n) == SubSeq(s, n + 1, Len(s))

\* a ChildProcess that spawn() has not returned yet
Unborn == [st |-> "unborn", sig |-> "none", code |-> NullCode,
           out |-> <<>>, err |-> <<>>, listening |-> FALSE]

\* a ChildProcess after its 'close': nothing reads its fields any more
Closed == [Unborn EXCEPT !.st = "closed", !.listening = TRUE]

Spawned == {p \in ProcIds : procs[p].st # "unborn"}
NextId == Cardinality(Spawned) + 1

\* the OS process behind p has started and has not terminated
Live(p) == procs[p].st = "running"
LiveProcs == {p \in ProcIds : Live(p)}

\* child_process.spawn: the object is returned in either case; a process
\* that could not be created reports through a later 'error' event
spawn(ok) == [Unborn EXCEPT !.st = IF ok THEN "running" ELSE "failed"]

\* ChildProcess.kill(): SIGTERM goes to a process that is still there
kill(ps, p) == IF ps[p].st = "running" /\ ps[p].sig = "none"
               THEN [ps EXCEPT ![p].sig = "pending"]
               ELSE ps

\* stdout.on('data', ...) and stderr.on('data', ...) on a child just spawned
attachNothing(child) == child
attach(child) == [child EXCEPT !.listening = TRUE]

Event(ch, payload, p) == [channel |-> ch, payload |-> payload, src |-> p]

\* last when the step just taken was not a command handler
NoCmd == [cmd |-> "none", pre |-> Undefined, result |-> "none", is_running |-> FALSE]
Handled(cmd, pre, result, running) ==
  [cmd |-> cmd, pre |-> pre, result |-> result, is_running |-> running]

Init ==
  /\ platform \in {"darwin", "other"}
  /\ appRunning = TRUE
  /\ windowOpen = TRUE
  /\ pythonProcess = Undefined
  /\ procs = [p \in ProcIds |-> Unborn]
  /\ outWritten = 0
  /\ errWritten = 0
  /\ emitted = <<>>
  /\ threw = FALSE
  /\ last = NoCmd
  /\ queue = <<>>
  /\ logOutput = <<>>
  /\ invokes = 0

\* ------------------------------------------------ the workers and Node
WindowVars == <<platform, appRunning, windowOpen>>
Written == <<outWritten, errWritten>>
RendererVars == <<queue, logOutput, invokes>>
\* a step that sends nothing, throws nothing and handles no command
Quiet == emitted' = <<>> /\ threw' = FALSE /\ last' = NoCmd

\* the worker writes its next line to stdout or to stderr
WorkerWrite(p) ==
  /\ appRunning
  /\ Live(p)
  /\ outWritten + errWritten < Len(WorkerLines)
  /\ LET line == WorkerLines[outWritten + errWritten + 1] IN
       \/ /\ procs' = [procs EXCEPT ![p].out = @ \o line]
          /\ outWritten' = outWritten + 1
          /\ UNCHANGED errWritten
       \/ /\ procs' = [procs EXCEPT ![p].err = @ \o line]
          /\ errWritten' = errWritten + 1
          /\ UNCHANGED outWritten
  /\ Quiet
  /\ UNCHANGED <<WindowVars, RendererVars, pythonProcess>>

\* the worker ends on its own with an exit code
WorkerExit(p) ==
  /\ appRunning
  /\ Live(p)
  /\ \E c \in ExitCodes : procs' = [procs EXCEPT ![p].st = "exited", ![p].code = c]
  /\ Quiet
  /\ UNCHANGED <<Written, WindowVars, RendererVars, pythonProcess>>

\* SIGTERM ends the worker: Node reports code null and the signal.  A worker
\* that catches the signal never takes this step
WorkerTermExit(p) ==
  /\ Live(p)
  /\ procs[p].sig = "pending"
  /\ procs' = [procs EXCEPT ![p].st = "exited", ![p].code = NullCode]
  /\ Quiet
  /\ UNCHANGED <<Written, WindowVars, RendererVars, pythonProcess>>

\* the 'error' event of a child that could not be spawned: neither main
\* process registers an 'error' listener, so EventEmitter throws
SpawnError(p) ==
  /\ appRunning
  /\ procs[p].st = "failed"
  /\ procs' = [procs EXCEPT ![p].st = "errored"]
  /\ emitted' = <<>>
  /\ threw' = TRUE
  /\ last' = NoCmd
  /\ UNCHANGED <<Written, WindowVars, RendererVars, pythonProcess>>

\* a stream of p can hand bytes to its 'data' listener
Readable(p) ==
  /\ appRunning
  /\ procs[p].st \in {"running", "exited"}
  /\ procs[p].listening

\* 'close' comes after the process ended and both streams were read to the end
Closable(p) ==
  /\ appRunning
  /\ procs[p].st = "exited"
  /\ procs[p].out = <<>>
  /\ procs[p].err = <<>>

\* mainWindow.webContents.send(channel, payload): throws on a destroyed window
Send(ev) ==
  /\ emitted' = IF windowOpen THEN <<ev>> ELSE <<>>
  /\ threw' = ~windowOpen

\* ------------------------------------------------ src/unnamed/part_000

\* a renderer can invoke a command
CanInvoke == appRunning /\ windowOpen

\* what start-agent leaves in pythonProcess
StartTarget(pp) == IF Falsy(pp) THEN NextId ELSE pp

StartAgent ==
  /\ CanInvoke
  /\ \E ok \in BOOLEAN :
       IF Falsy(pythonProcess)
       THEN /\ NextId <= MaxProcs
            /\ procs' = [procs EXCEPT ![NextId] = attach(spawn(ok))]
       ELSE /\ ok
            /\ procs' = procs
  /\ pythonProcess' = StartTarget(pythonProcess)
  /\ last' = Handled("start", pythonProcess, "success", FALSE)
  /\ emitted' = <<>>
  /\ threw' = FALSE
  /\ UNCHANGED <<Written, WindowVars, RendererVars>>

\* what stop-agent leaves in pythonProcess
StopTargetUnguarded(pp) == Null
StopTarget(pp) == IF ~Falsy(pp) THEN Null ELSE pp

StopAgent ==
  /\ CanInvoke
  /\ procs' = IF ~Falsy(pythonProcess) THEN kill(procs, pythonProcess) ELSE procs
  /\ pythonProcess' = StopTarget(pythonProcess)
  /\ last' = Handled("stop", pythonProcess, "success", FALSE)
  /\ emitted' = <<>>
  /\ threw' = FALSE
  /\ UNCHANGED <<Written, WindowVars, RendererVars>>

\* is_running: !!pythonProcess
is_running(pp) == ~Falsy(pp)

GetDashboardData ==
  /\ CanInvoke
  /\ last' = Handled("get-dashboard-data", pythonProcess, "data", is_running(pythonProcess))
  /\ emitted' = <<>>
  /\ threw' = FALSE
  /\ UNCHANGED <<Written, WindowVars, RendererVars, pythonProcess, procs>>

StdoutData(p) ==
  /\ Readable(p)
  /\ \E n \in 1..Len(procs[p].out) :
       /\ Send(Event("agent-log", toString(Take(procs[p].out, n)), p))
       /\ procs' = [procs EXCEPT ![p].out = Drop(@, n)]
  /\ last' = NoCmd
  /\ UNCHANGED <<Written, WindowVars, RendererVars, pythonProcess>>

StderrData(p) ==
  /\ Readable(p)
  /\ \E n \in 1..Len(procs[p].err) :
       /\ Send(Event("agent-error", toString(Take(procs[p].err, n)), p))
       /\ procs' = [procs EXCEPT ![p].err = Drop(@, n)]
  /\ last' = NoCmd
  /\ UNCHANGED <<Written, WindowVars, RendererVars, pythonProcess>>

\* part_000 registers no 'close' or 'exit' listener: the end of the child
\* changes nothing in the supervisor
Close(p) ==
  /\ Closable(p)
  /\ procs' = [procs EXCEPT ![p] = Closed]
  /\ Quiet
  /\ UNCHANGED <<Written, WindowVars, RendererVars, pythonProcess>>

\* the user closes the window
WindowAllClosed ==
  /\ appRunning
  /\ windowOpen
  /\ windowOpen' = FALSE
  /\ procs' = IF ~Falsy(pythonProcess) THEN kill(procs, pythonProcess) ELSE procs
  /\ appRunning' = (platform = "darwin")
  /\ Quiet
  /\ UNCHANGED <<Written, platform, RendererVars, pythonProcess>>

\* macOS: the dock icon is clicked while no window is open
Activate ==
  /\ appRunning
  /\ platform = "darwin"
  /\ ~windowOpen
  /\ windowOpen' = TRUE
  /\ Quiet
  /\ UNCHANGED <<Written, platform, appRunning, RendererVars, pythonProcess, procs>>

Next ==
  \/ StartAgent
  \/ StopAgent
  \/ GetDashboardData
  \/ \E p \in ProcIds : StdoutData(p)
  \/ \E p \in ProcIds : StderrData(p)
  \/ \E p \in ProcIds : Close(p)
  \/ WindowAllClosed
  \/ Activate
  \/ \E p \in ProcIds : WorkerWrite(p)
  \/ \E p \in ProcIds : WorkerExit(p)
  \/ \E p \in ProcIds : WorkerTermExit(p)
  \/ \E p \in ProcIds : SpawnError(p)

Spec == Init /\ [][Next]_vars

\* ------------------------------------- src/electron-frontend/main.js

\* webContents.send puts the message on the way to the renderer
Relay(ev) ==
  /\ Send(ev)
  /\ queue' = IF windowOpen THEN Append(queue, ev) ELSE queue

\* start-agent spawns on every call and returns nothing
FeStartAgent ==
  /\ appRunning
  /\ invokes > 0
  /\ NextId <= MaxProcs
  /\ \E ok \in BOOLEAN : procs' = [procs EXCEPT ![NextId] = attach(spawn(ok))]
  /\ invokes' = invokes - 1
  /\ last' = Handled("start", Undefined, "undefined", FALSE)
  /\ emitted' = <<>>
  /\ threw' = FALSE
  /\ UNCHANGED <<Written, WindowVars, pythonProcess, queue, logOutput>>

FeStdoutData(p) ==
  /\ Readable(p)
  /\ \E n \in 1..Len(procs[p].out) :
       /\ Relay(Event("agent-log", toString(Take(procs[p].out, n)), p))
       /\ procs' = [procs EXCEPT ![p].out = Drop(@, n)]
  /\ last' = NoCmd
  /\ UNCHANGED <<Written, WindowVars, pythonProcess, logOutput, invokes>>

FeStderrData(p) ==
  /\ Readable(p)
  /\ \E n \in 1..Len(procs[p].err) :
       /\ Relay(Event("agent-error", toString(Take(procs[p].err, n)), p))
       /\ procs' = [procs EXCEPT ![p].err = Drop(@, n)]
  /\ last' = NoCmd
  /\ UNCHANGED <<Written, WindowVars, pythonProcess, logOutput, invokes>>

\* `Agent exited with code ${code}`
ExitText(code) == <<"Agent exited with code ", CodeStr(code)>>

FeClose(p) ==
  /\ Closable(p)
  /\ Relay(Event("agent-status", ExitText(procs[p].code), p))
  /\ procs' = [procs EXCEPT ![p] = Closed]
  /\ last' = NoCmd
  /\ UNCHANGED <<Written, WindowVars, pythonProcess, logOutput, invokes>>

\* the user closes the window; its renderer and what was on the way to it go
FeWindowAllClosed ==
  /\ appRunning
  /\ windowOpen
  /\ windowOpen' = FALSE
  /\ appRunning' = (platform = "darwin")
  /\ queue' = <<>>
  /\ logOutput' = <<>>
  /\ Quiet
  /\ UNCHANGED <<Written, platform, pythonProcess, procs, invokes>>

\* ------------------------- src/electron-frontend/renderer/dashboard.js

\* logOutput.textContent += msg + '\n'
appendLog(text, msg) == text \o msg \o <<"\n">>

\* the emoji that the listeners and the click handler put before the text
GreenCircle == "(green circle) "
PageIcon == "(page) "
BangIcon == "(exclamation) "
CheckIcon == "(check) "

\* the start button is clicked
StartClick ==
  /\ appRunning
  /\ windowOpen
  /\ invokes + Cardinality(Spawned) < MaxProcs
  /\ invokes' = invokes + 1
  /\ logOutput' = appendLog(logOutput, <<GreenCircle, "Agent started...">>)
  /\ Quiet
  /\ UNCHANGED <<Written, WindowVars, pythonProcess, procs, queue>>

\* the renderer's listener for the message at the head of the queue runs
Listener(channel, icon) ==
  /\ appRunning
  /\ windowOpen
  /\ queue # <<>>
  /\ Head(queue).channel = channel
  /\ logOutput' = appendLog(logOutput, <<icon>> \o Head(queue).payload)
  /\ queue' = Tail(queue)
  /\ Quiet
  /\ UNCHANGED <<Written, WindowVars, pythonProcess, procs, invokes>>

onAgentLog == Listener("agent-log", PageIcon)
onAgentError == Listener("agent-error", BangIcon)
onAgentStatus == Listener("agent-status", CheckIcon)

FeNext ==
  \/ StartClick
  \/ FeStartAgent
  \/ \E p \in ProcIds : FeStdoutData(p)
  \/ \E p \in ProcIds : FeStderrData(p)
  \/ \E p \in ProcIds : FeClose(p)
  \/ FeWindowAllClosed
  \/ onAgentLog
  \/ onAgentError
  \/ onAgentStatus
  \/ \E p \in ProcIds : WorkerWrite(p)
  \/ \E p \in ProcIds : WorkerExit(p)
  \/ \E p \in ProcIds : SpawnError(p)

FeSpec == Init /\ [][FeNext]_vars

\* ================================================================ claims

\* a spawn() call was made by the step
SpawnedInStep == Spawned' # Spawned
\* the step is the one in which Node reports the end of p ('close')
EndObserved(p) == procs[p].st = "exited" /\ procs'[p].st = "closed"
\* the step sent the exit status of p to the window
ExitStatusSent(p) ==
  \E i \in 1..Len(emitted') :
    /\ emitted'[i].channel = "agent-status"
    /\ emitted'[i].src = p
    /\ emitted'[i].payload = ExitText(procs[p].code)

\* C1: a start-agent call handled while a worker that was started and not
\* stopped is still alive spawns no second process.
C1_SecondStartSpawnsNothing ==
  [][(last'.cmd = "start" /\ (\E p \in ProcIds : Live(p) /\ procs[p].sig = "none"))
       => ~SpawnedInStep]_vars

\* C2: in every reachable state at most one worker process that has not
\* exited exists.
C2_AtMostOneLiveWorker == Cardinality(LiveProcs) <= 1

\* C3: when the end of a worker that exited on its own with a nonzero code is
\* observed while it is the active worker, the active-worker reference becomes
\* absent and an exit status carrying the code is sent to the window.
C3_OwnExitGoesIdleAndReports ==
  [][\A p \in ProcIds :
       (EndObserved(p) /\ pythonProcess = p /\ procs[p].sig = "none"
          /\ procs[p].code # 0 /\ windowOpen)
       => (Falsy(pythonProcess') /\ ExitStatusSent(p))]_vars

\* C4: a start-agent call handled when every worker spawned so far has exited
\* spawns a new worker.
AllExited ==
  /\ Spawned # {}
  /\ \A p \in Spawned : procs[p].st \in {"exited", "closed"}
C4_StartAfterExitSpawns ==
  [][(last'.cmd = "start" /\ AllExited) => SpawnedInStep]_vars

\* C5: when the end of a worker that stop-agent signalled is observed, an exit
\* status for it is sent to the window.
StoppedByCommand(p) == procs[p].sig = "pending" /\ pythonProcess # p
C5_StopYieldsExitStatus ==
  [][\A p \in ProcIds :
       (EndObserved(p) /\ StoppedByCommand(p) /\ windowOpen) => ExitStatusSent(p)]_vars

\* C6: the renderer of a window that stayed open, after one worker wrote its
\* lines to stdout and exited on its own, shows one log entry per line, in
\* order, followed by the exit status with the code and nothing else.
RECURSIVE LineEntries(_, _)
LineEntries(n, withNewline) ==
  IF n = 0 THEN <<>>
  ELSE appendLog(LineEntries(n - 1, withNewline),
                 <<PageIcon>> \o (IF withNewline THEN toString(WorkerLines[n])
                                  ELSE Take(toString(WorkerLines[n]),
                                            Len(WorkerLines[n]) - 1)))
ExpectedLog(withNewline, code) ==
  appendLog(appendLog(<<>>, <<GreenCircle, "Agent started...">>)
              \o LineEntries(Len(WorkerLines), withNewline),
            <<CheckIcon>> \o ExitText(code))
OneWorkerDone ==
  /\ windowOpen
  /\ Spawned = {1}
  /\ invokes = 0
  /\ procs[1].st = "closed"
  /\ outWritten = Len(WorkerLines)
  /\ errWritten = 0
  /\ queue = <<>>
C6_LinesThenExitInOrder ==
  OneWorkerDone =>
    \E withNewline \in BOOLEAN, code \in ExitCodes :
      logOutput = ExpectedLog(withNewline, code)

\* C7: the is_running value get-dashboard-data returns is true exactly when a
\* worker process that has not exited exists (runs in which every spawn
\* succeeded).
NoSpawnFailure == \A p \in ProcIds : procs[p].st \notin {"failed", "errored"}
C7_IsRunningMeansLiveWorker ==
  (last.cmd = "get-dashboard-data" /\ NoSpawnFailure)
    => (last.is_running <=> LiveProcs # {})

\* C8: a start-agent call whose spawn fails does not return success and leaves
\* no active worker.
SpawnFailedInStep == \E p \in ProcIds : procs[p].st = "unborn" /\ procs'[p].st = "failed"
C8_SpawnFailureIsReturned ==
  [][(last'.cmd = "start" /\ SpawnFailedInStep)
       => (last'.result # "success" /\ Falsy(pythonProcess'))]_vars

\* C9: a stop-agent call handled when no worker is active returns success,
\* throws nothing, signals no process and leaves the supervisor as it was; on
\* a worker that has already ended it also returns success and signals nothing.
C9_StopWhenIdleIsNoOp ==
  [][/\ (last'.cmd = "stop" /\ Falsy(pythonProcess))
          => /\ last'.result = "success"
             /\ ~threw'
             /\ pythonProcess' = pythonProcess
             /\ procs' = procs
             /\ emitted' = <<>>
     /\ (last'.cmd = "stop" /\ ~Falsy(pythonProcess) /\ ~Live(pythonProcess))
          => /\ last'.result = "success"
             /\ ~threw'
             /\ procs' = procs
             /\ emitted' = <<>>]_vars
\* a second stop-agent right after a first has been handled
C9_Witness == last.cmd = "stop" /\ last.pre = Null /\ pythonProcess = Null

\* C10: stop-agent on a running worker keeps the worker referenced: while the
\* worker has not ended, no step takes the supervisor from it to Idle.
C10_StopKeepsReferenceUntilExit ==
  [][\A p \in ProcIds : (pythonProcess = p /\ Live(p)) => pythonProcess' = p]_vars

\* C11: every command sees the active-worker reference whole: a reference is
\* only ever to a child whose stream listeners are attached, stop-agent clears
\* the reference in the step that signals the worker, and get-dashboard-data
\* reports the reference as it is, also between the data events of the worker.
C11_CommandsSeeWholeReference ==
  [][/\ ~Falsy(pythonProcess') => procs'[pythonProcess'].listening
     /\ (last'.cmd = "stop" /\ ~Falsy(pythonProcess)) => Falsy(pythonProcess')
     /\ \A p \in ProcIds :
          (last'.cmd = "stop" /\ procs[p].sig = "none" /\ procs'[p].sig = "pending")
            => pythonProcess' # p
     /\ last'.cmd = "get-dashboard-data"
          => /\ last'.is_running = ~Falsy(pythonProcess)
             /\ pythonProcess' = pythonProcess]_vars
\* stop-agent handled on a running worker between two data events of one line
C11_Witness ==
  /\ last.cmd = "stop"
  /\ ~Falsy(last.pre)
  /\ procs[last.pre].sig = "pending"
  /\ Len(procs[last.pre].out) = 1

\* C12: the payload of every agent-log and agent-error message is one whole
\* line the worker wrote, with or without its line end, wherever the chunk
\* boundaries fall.
WholeLines ==
  {toString(WorkerLines[i]) : i \in 1..Len(WorkerLines)}
    \cup {Take(toString(WorkerLines[i]), Len(WorkerLines[i]) - 1) : i \in 1..Len(WorkerLines)}
C12_PayloadIsOneLine ==
  \A i \in 1..Len(emitted) :
    emitted[i].channel \in {"agent-log", "agent-error"}
      => emitted[i].payload \in WholeLines

\* a 'data' listener of p ran in the step
DataHandlerRan(p) ==
  \/ Len(procs'[p].out) < Len(procs[p].out)
  \/ Len(procs'[p].err) < Len(procs[p].err)

\* C13: no 'data' listener sends to a window that has been closed: a step in
\* which a listener runs does not end in the exception of a destroyed window.
C13_NoSendToClosedWindow ==
  [][\A p \in ProcIds : DataHandlerRan(p) => (windowOpen /\ ~threw')]_vars

\* C14: on macOS, closing all windows while a worker is active signals the
\* worker and leaves the supervisor without an active worker, and a
\* start-agent after the window is back spawns a fresh worker.
C14_WindowCloseReleasesWorker ==
  [][/\ (platform = "darwin" /\ windowOpen /\ ~windowOpen' /\ ~Falsy(pythonProcess))
          => /\ Falsy(pythonProcess')
             /\ ~Live(pythonProcess) \/ procs'[pythonProcess].sig = "pending"
     /\ (last'.cmd = "start" /\ ~Falsy(pythonProcess)
           /\ procs[pythonProcess].sig = "pending")
          => SpawnedInStep]_vars

====
